---- MODULE Spec2Model ----
(***************************************************************************)
(* Model of the gradient-descent training code of                          *)
(* beginner/003_PyTorch.ipynb: the manual full-batch loop over             *)
(* MyLinearModel and the mini-batch loop over WineData / DataLoader /      *)
(* torch.optim.SGD.                                                        *)
(*                                                                         *)
(* Floating-point numbers are modelled as fixed-point integers: a          *)
(* parameter, prediction or gradient v stands for v / Unit, a loss l for   *)
(* l / Unit, a learning rate r for r / LrDen.  Every arithmetic result is  *)
(* rounded to the nearest representable value, as float arithmetic does,   *)
(* and a result beyond the range +-FloatMax is non-finite (inf or nan).    *)
(* Observations (x_i, y_i) are small whole numbers.                        *)
(*                                                                         *)
(* Besides the two training cells the model holds the usage-example cells  *)
(* of the notebook: the construction of MyLinearModel and the optimizer    *)
(* example, the WineData example and the DataLoader example.  SpecFit      *)
(* starts the manual loop at the closed-form regression of its             *)
(* observations, computed as the closed-form cells compute it.             *)
(***************************************************************************)
EXTENDS Integers, Sequences, FiniteSets, TLC

\* ---------------------------------------------------------------- bounds
MaxLen == 3          \* longest observation sequence
MaxVal == 1          \* largest observed y value
MaxEpochs == 2       \* largest num_epochs

\* ------------------------------------------------- number representation
UnitRoot == 10^3
Unit == UnitRoot * UnitRoot      \* fixed-point units per 1.0
LrDen == 10^2                    \* learning rates are multiples of 1/LrDen

\* n / d rounded to the nearest integer (d > 0)
RDiv(n, d) == (n + d \div 2) \div d

Abs(n) == IF n < 0 THEN -n ELSE n

\* the range of a float: a result of magnitude above FloatMax overflows and
\* is non-finite (inf, or nan after further arithmetic).  FloatRoot is the
\* largest magnitude whose square is still finite.
FloatRoot == 8 * Unit
FloatMax == 8 * FloatRoot
NonFinite == 2 * FloatMax
Finite(v) == v # NonFinite
\* the float that holds the exact result v
Fl(v) == IF v < -FloatMax \/ v > FloatMax THEN NonFinite ELSE v

\* r * r / Unit, rounded down, without leaving 32-bit range
Sq(r) ==
    LET m == IF r < 0 THEN -r ELSE r
        h == m \div UnitRoot
        l == m % UnitRoot
    IN  h * h + (2 * h * l + (l * l) \div UnitRoot) \div UnitRoot

RECURSIVE SumSeq(_)
SumSeq(s) == IF s = <<>> THEN 0 ELSE Head(s) + SumSeq(Tail(s))

\* u * v / Unit, rounded toward zero, without leaving 32-bit range
Mul(u, v) ==
    LET m == Abs(u)
        n == Abs(v)
        mh == m \div UnitRoot
        ml == m % UnitRoot
        nh == n \div UnitRoot
        nl == n % UnitRoot
        q == mh * nh + (mh * nl + ml * nh + (ml * nl) \div UnitRoot)
                          \div UnitRoot
    IN  IF (u < 0) = (v < 0) THEN q ELSE -q

\* the digits of r / d after the point, one decimal digit at a time
\* (0 <= r < d, scale a power of ten)
RECURSIVE Frac(_, _, _)
Frac(r, d, scale) ==
    IF scale = 1 THEN 0
    ELSE ((r * 10) \div d) * (scale \div 10)
           + Frac((r * 10) % d, d, scale \div 10)

\* u / v in fixed point, rounded toward zero (v > 0)
Div(u, v) ==
    LET m == Abs(u)
        q == (m \div v) * Unit + Frac(m % v, v, Unit)
    IN  IF u < 0 THEN -q ELSE q


Max2(m, n) == IF m >= n THEN m ELSE n
Min2(m, n) == IF m <= n THEN m ELSE n

\* ------------------------------------------------------------ the model
\* MyLinearModel.forward / nn.Linear(1,1): x*a + b, elementwise
Forward(pa, pb, xs) ==
    [i \in 1..Len(xs) |->
        IF Finite(pa) /\ Finite(pb) THEN Fl(xs[i] * pa + pb) ELSE NonFinite]

\* the mean of whole-number observations
Mean(s) == RDiv(SumSeq(s) * Unit, Len(s))

\* a closed form that takes the mean of y for the intercept
ClosedFormMeanIntercept(xs, ys) ==
    LET xbar == Mean(xs)
        ybar == Mean(ys)
        dx == [i \in 1..Len(xs) |-> xs[i] * Unit - xbar]
        dy == [i \in 1..Len(ys) |-> ys[i] * Unit - ybar]
        ca == Div(SumSeq([i \in 1..Len(xs) |-> Mul(dx[i], dy[i])]),
                  SumSeq([i \in 1..Len(xs) |-> Sq(dx[i])]))
    IN  <<ca, ybar>>

\* the closed-form linear regression:
\*   xbar = mean(x); ybar = mean(y)
\*   a = (x - xbar)@(y - ybar).T / pow(x - xbar, 2).sum()
\*   b = ybar - a * xbar
\* (x not constant, so that the divisor is not zero)
ClosedForm(xs, ys) ==
    LET xbar == Mean(xs)
        ybar == Mean(ys)
        dx == [i \in 1..Len(xs) |-> xs[i] * Unit - xbar]
        dy == [i \in 1..Len(ys) |-> ys[i] * Unit - ybar]
        ca == Div(SumSeq([i \in 1..Len(xs) |-> Mul(dx[i], dy[i])]),
                  SumSeq([i \in 1..Len(xs) |-> Sq(dx[i])]))
    IN  <<ca, ybar - Mul(ca, xbar)>>

\* torch broadcasting of two 1-D tensors: equal sizes, or one of size 1
Broadcastable(m, n) == m = n \/ m = 1 \/ n = 1
BIdx(i, len) == IF len = 1 THEN 1 ELSE i

\* thy - yhat, elementwise after broadcasting (thy holds whole numbers)
Residuals(ys, yh) ==
    [i \in 1..Max2(Len(ys), Len(yh)) |->
        IF Finite(yh[BIdx(i, Len(yh))])
          THEN Fl(ys[BIdx(i, Len(ys))] * Unit - yh[BIdx(i, Len(yh))])
          ELSE NonFinite]

\* ((thy-yhat)*(thy-yhat)).mean()  and  nn.MSELoss()(y, yhat)
MseLoss(ys, yh) ==
    LET r == Residuals(ys, yh)
    IN  IF \A i \in 1..Len(r) : Finite(r[i]) /\ Abs(r[i]) <= FloatRoot
          THEN Fl(RDiv(SumSeq([i \in 1..Len(r) |-> Sq(r[i])]), Len(r)))
          ELSE NonFinite

\* loss.backward(): d loss / d a and d loss / d b of the graph built by
\* Forward and MseLoss; yh is the prediction saved by the forward pass
BackwardA(xs, ys, yh) ==
    LET r == Residuals(ys, yh)
    IN  IF \A i \in 1..Len(r) : Finite(r[i])
          THEN Fl(RDiv(SumSeq([i \in 1..Len(r) |->
                                 -2 * r[i] * xs[BIdx(i, Len(xs))]]), Len(r)))
          ELSE NonFinite

\* a backward pass that stores the gradient of a for b as well
BackwardBAsA(xs, ys, yh) == BackwardA(xs, ys, yh)

BackwardB(xs, ys, yh) ==
    LET r == Residuals(ys, yh)
    IN  IF \A i \in 1..Len(r) : Finite(r[i])
          THEN Fl(RDiv(SumSeq([i \in 1..Len(r) |-> -2 * r[i]]), Len(r)))
          ELSE NonFinite

\* autograd accumulates into .grad: an unset buffer (<<>>) is created,
\* a set one is added to
Accumulate(buf, g) ==
    IF buf = <<>> THEN <<g>>
    ELSE IF Finite(buf[1]) /\ Finite(g) THEN <<Fl(buf[1] + g)>>
    ELSE <<NonFinite>>

\* an update rule that clamps a negative learning rate to zero
SgdUpdateClamped(p, g, rate) == p - RDiv(Max2(rate, 0) * g, LrDen)

\* an update that adds a constant pull of 1.0 to every gradient
SgdUpdatePulled(p, g, rate) == p - RDiv(rate * (g + Unit), LrDen)

\* p.data -= lr * p.grad   and   the SGD rule of optmzr.step()
SgdUpdate(p, g, rate) ==
    IF Finite(p) /\ Finite(g) THEN Fl(p - RDiv(rate * g, LrDen))
    ELSE NonFinite

\* a step that moves a parameter by its whole gradient
StepParamUnitRate(p, buf, rate) == IF buf = <<>> THEN p ELSE p - buf[1]

\* optim.step() on one parameter: a parameter whose .grad is None is skipped
StepParam(p, buf, rate) ==
    IF buf = <<>> THEN p ELSE SgdUpdate(p, buf[1], rate)

\* a zero_ that leaves the buffer as it is
ZeroGradNoop(buf) == buf

\* p.grad.zero_() / optmzr.zero_grad() on a buffer
ZeroGrad(buf) == IF buf = <<>> THEN <<>> ELSE <<0>>

\* ---------------------------------------------------------- DataLoader
\* a sampler that draws every position independently (with replacement)
ShufflesWithReplacement(n) == [1..n -> 1..n]

\* RandomSampler (shuffle=True): a random order of the dataset indices
Shuffles(n) == {p \in [1..n -> 1..n] : \A i, j \in 1..n : p[i] = p[j] => i = j}

\* BatchSampler: is there a batch after `at` indices were handed out
HasBatch(at, n, size, dropLast) ==
    IF dropLast THEN at + size <= n ELSE at < n

\* BatchSampler: the indices of that batch
BatchAt(order, at, size) ==
    SubSeq(order, at + 1, Min2(at + size, Len(order)))

\* iter(dataloader): every call makes a new iterator <<order, position>>,
\* whatever iterator `cur` was made before
IterOf(cur, fresh) == fresh

\* a constructor that also insists on at least one observation
WineDataAcceptsNonEmpty(xs, ys) == Len(xs) = Len(ys) /\ Len(ys) > 0

\* WineData.__init__: assert len(self.x) == len(self.y)
WineDataAccepts(xs, ys) == Len(xs) = Len(ys)

\* WineData.__len__: len(self.y)
DatasetLen(xs, ys) == Len(ys)

\* WineData.__getitem__(idx), idx counted from 0: is it inside the arrays,
\* and the item
HasItem(xs, ys, idx) == idx < Len(xs) /\ idx < Len(ys)
GetItem(xs, ys, idx) == <<xs[idx + 1], ys[idx + 1]>>

\* default collate of dataset[i] for i in the batch
Collate(data, idxs) == [k \in 1..Len(idxs) |-> data[idxs[k]]]

Range(s) == {s[k] : k \in 1..Len(s)}

\* ------------------------------------------------------ random numbers
\* torch's global generator as <<seed, numbers drawn since seeding>>; the
\* state it has when the notebook starts
DefaultGenerator == <<0, 0>>

\* torch.random.manual_seed(s)
ManualSeed(s) == <<s, 0>>

\* torch.rand(1): the next number of the generator's stream, in [0, 1), ...
Rand(g) == (((g[1] + 1) * 7919 + g[2] * 104729) % UnitRoot) * UnitRoot
\* ... and the generator after the draw
Drawn(g) == <<g[1], g[2] + 1>>

\* the seed that MyLinearModel.__init__ sets
ModelSeed == 7

\* an __init__ that leaves the generator as it finds it
Unseeded(g) == g

\* MyLinearModel.__init__: torch.random.manual_seed(7)
Seeded(g) == ManualSeed(ModelSeed)

\* MyLinearModel(): seed, then a = rand, b = rand; gen is the generator the
\* constructor found, rng the one it leaves
NewLinearModel(g) ==
    LET g0 == Seeded(g)
        g1 == Drawn(g0)
    IN  [a |-> Rand(g0), b |-> Rand(g1), gen |-> g, rng |-> Drawn(g1)]

\* -------------------------------------------------------------- inputs
\* observation sequences: x = 0, 1, 2, ...; y = the zero sequence and the
\* sawtooth sequences of values up to MaxVal
XSeqs == {[i \in 1..n |-> i - 1] : n \in 1..MaxLen}
YSeqs == {[i \in 1..n |-> (k * i) % (MaxVal + 1)] :
            n \in 1..MaxLen, k \in 0..MaxVal}
LearningRates == {-1, 0, 1}
EpochCounts == (-1)..MaxEpochs
\* mini-batches of two or more observations (a pass may still end with a
\* batch of one)
BatchSizes == 2..MaxLen
\* initial <<a, b>>: of MyLinearModel() ...
InitialParams == {<<0, 0>>, <<Unit, Unit \div 2>>}
\* ... and of nn.Linear(1,1): a value MyLinearModel() can start from as
\* well, so that both loops have runs from the same parameters
LinearInitialParams == {<<Unit, Unit \div 2>>}
\* learning rates under which the manual loop diverges, slowly and fast
DivergingRates == {-30, -1, 30}
\* random numbers that other cells draw between two statements
MaxDraws == 2
\* the DataLoader usage example: batch_size=4 scaled down to 2, so that
\* datasets of up to four observations hold two full batches; drop_last=True;
\* zip(dataloader, range(5))
ExampleBatchSize == 2
ExampleDropLast == TRUE
ExampleLoopLimit == 5
ExampleLens == 1..(2 * ExampleBatchSize)
\* the optimizer usage example: lr=0.5, and the gradients 0.5 and 0.4 that it
\* assigns to a
ExampleLr == LrDen \div 2
ExampleGrad1 == Unit \div 2
ExampleGrad2 == (2 * Unit) \div 5

VARIABLES
    cell,        \* which training cell runs: "gd" (manual loop) or "sgd"
    pc,          \* position inside the cell
    x, y,        \* wine_x, wine_y
    lr,          \* learning rate, in units of 1/LrDen
    num_epochs,
    ep,          \* loop variable ep / e: index of the current epoch
    a, b,        \* parameter values (.data)
    ga, gb,      \* parameter gradients (.grad); <<>> is None
    pidx,        \* position of `for p in lin.parameters()`: 1 = a, 2 = b
    yhat,        \* last prediction
    loss,        \* last loss; <<>> before the first one
    err,         \* exception that ended the cell, or "none"
    fig,         \* what the last checkpoint plotted: <<a, b>>, or <<>>
    p0,          \* the initial parameter values <<a, b>>
    pre,         \* the parameter values <<a, b>> read by the last forward
    cnt,         \* how often each step of the loop body has run so far
    batch_size,  \* DataLoader batch_size
    perm,        \* index order of the current DataLoader pass
    pos,         \* number of indices of perm already handed out
    batch,       \* dataset indices of the current mini-batch
    seen,        \* dataset indices of the earlier batches of this pass
    rng,         \* torch's global generator: <<seed, numbers drawn since>>
    out,         \* what the usage-example cells have produced so far
    rising       \* the manual loop computed two or more losses and each
                 \* one was finite and larger than the one before

vars == <<cell, pc, x, y, lr, num_epochs, ep, a, b, ga, gb, pidx, yhat,
          loss, err, fig, p0, pre, cnt, batch_size, perm, pos, batch, seen,
          rng, out, rising>>

dataVars == <<x, y, lr, num_epochs, batch_size, cell, p0>>
loaderVars == <<perm, pos, batch, seen>>
exampleVars == <<rng, out>>

CheckpointEvery == 1000       \* ep%10**3==0
SgdCheckpointEvery == 100     \* e%100==0

\* the counted steps: forward pass, loss, backward call, update of a, update
\* of b, mini-batch fetched from a DataLoader iterator, DataLoader iterator
\* created, random number drawn from the global generator by other code
Steps == {"forward", "loss", "backward", "a", "b", "batch", "iter", "draw"}
Count(c, k) == [c EXCEPT ![k] = @ + 1]

\* a range that takes the magnitude of a negative count
RangeHasNextAbs(i, n) == i < (IF n < 0 THEN -n ELSE n)

\* a range that also yields n itself
RangeHasNextInclusive(i, n) == i <= n

\* range(num_epochs): is there an i-th value
RangeHasNext(i, n) == i < n

\* the first statement of each cell: the manual loop starts at its `for`,
\* the cells that use WineData at its construction, the cells that build
\* MyLinearModel at `lin = MyLinearModel()`
FirstStep(c) ==
    IF c = "gd" THEN "for" ELSE IF c = "optim" THEN "lin" ELSE "dataset"

\* has every loss of the manual loop so far been finite and larger than the
\* one before (last = the loss variable before the new value is stored)
StillRising(sofar, last, new) ==
    /\ last # <<>>
    /\ last[1] # NonFinite /\ new # NonFinite
    /\ new > last[1]
    /\ (sofar \/ cnt["loss"] = 1)

\* the state in which a cell starts
InitWith(c, xs, ys, rate, n, size, p) ==
    /\ cell = c
    /\ pc = FirstStep(c)
    /\ x = xs
    /\ y = ys
    /\ lr = rate
    /\ num_epochs = n
    /\ batch_size = size
    /\ ep = 0
    /\ a = p[1] /\ b = p[2]
    /\ ga = <<>> /\ gb = <<>>
    /\ pidx = 0
    /\ yhat = IF c = "gd" THEN Forward(p[1], p[2], xs) ELSE <<>>
    /\ loss = <<>>
    /\ err = "none"
    /\ fig = <<>>
    /\ p0 = p
    /\ pre = p
    /\ cnt = [k \in Steps |-> 0]
    /\ perm = <<>> /\ pos = 0 /\ batch = <<>> /\ seen = {}
    /\ rng = DefaultGenerator
    /\ out = <<>>
    /\ rising = FALSE

InitTrain ==
    \E c \in {"gd", "sgd"}, xs \in XSeqs, ys \in YSeqs, rate \in LearningRates,
       n \in EpochCounts :
        \E size \in (IF c = "gd" THEN {1} ELSE BatchSizes),
           p \in (IF c = "gd" THEN InitialParams ELSE LinearInitialParams) :
            InitWith(c, xs, ys, rate, n, size, p)

\* ------------------------------------------- manual gradient-descent loop
\* a loop that ends as soon as the loss has grown or is non-finite
GdForEarlyStop ==
    /\ cell = "gd" /\ pc = "for"
    /\ pc' = IF RangeHasNext(ep, num_epochs)
                  /\ ~(rising \/ loss = <<NonFinite>>)
               THEN "forward" ELSE "done"
    /\ UNCHANGED <<dataVars, exampleVars, rising,
                   loaderVars, ep, a, b, ga, gb, pidx, yhat, loss,
                   err, fig, pre, cnt>>

\* for ep in range(num_epochs):
GdFor ==
    /\ cell = "gd" /\ pc = "for"
    /\ pc' = IF RangeHasNext(ep, num_epochs) THEN "forward" ELSE "done"
    /\ UNCHANGED <<dataVars, exampleVars, rising,
                   loaderVars, ep, a, b, ga, gb, pidx, yhat, loss,
                   err, fig, pre, cnt>>

\* yhat = lin(thx)
GdForward ==
    /\ cell = "gd" /\ pc = "forward"
    /\ yhat' = Forward(a, b, x)
    /\ pre' = <<a, b>>
    /\ cnt' = Count(cnt, "forward")
    /\ pc' = "loss"
    /\ UNCHANGED <<dataVars, exampleVars, rising,
                   loaderVars, ep, a, b, ga, gb, pidx, loss, err,
                   fig>>

\* a loss statement that keeps the first loss it computed
GdLossKeepFirst ==
    /\ cell = "gd" /\ pc = "loss"
    /\ IF Broadcastable(Len(y), Len(yhat))
         THEN /\ loss' = IF loss = <<>> THEN <<MseLoss(y, yhat)>> ELSE loss
              /\ rising' = StillRising(rising, loss, MseLoss(y, yhat))
              /\ cnt' = Count(cnt, "loss")
              /\ pc' = "backward"
              /\ err' = err
         ELSE /\ err' = "RuntimeError"
              /\ pc' = "raised"
              /\ UNCHANGED <<loss, cnt, rising>>
    /\ UNCHANGED <<dataVars, exampleVars,
                   loaderVars, ep, a, b, ga, gb, pidx, yhat, fig,
                   pre>>

\* loss = ((thy-yhat)*(thy-yhat)).mean()
GdLoss ==
    /\ cell = "gd" /\ pc = "loss"
    /\ IF Broadcastable(Len(y), Len(yhat))
         THEN /\ loss' = <<MseLoss(y, yhat)>>
              /\ rising' = StillRising(rising, loss, MseLoss(y, yhat))
              /\ cnt' = Count(cnt, "loss")
              /\ pc' = "backward"
              /\ err' = err
         ELSE /\ err' = "RuntimeError"
              /\ pc' = "raised"
              /\ UNCHANGED <<loss, cnt, rising>>
    /\ UNCHANGED <<dataVars, exampleVars,
                   loaderVars, ep, a, b, ga, gb, pidx, yhat, fig,
                   pre>>

\* loss.backward()
GdBackward ==
    /\ cell = "gd" /\ pc = "backward"
    /\ ga' = Accumulate(ga, BackwardA(x, y, yhat))
    /\ gb' = Accumulate(gb, BackwardB(x, y, yhat))
    /\ cnt' = Count(cnt, "backward")
    /\ pidx' = 1
    /\ pc' = "update"
    /\ UNCHANGED <<dataVars, exampleVars, rising,
                   loaderVars, ep, a, b, yhat, loss,
                   err, fig, pre>>

\* an update loop in which the gradient of each parameter is re-derived from
\* the parameters as they are when its turn comes
GdUpdateSequential ==
    /\ cell = "gd" /\ pc = "update"
    /\ IF pidx = 1
         THEN /\ a' = SgdUpdate(a, BackwardA(x, y, Forward(a, b, x)), lr)
              /\ ga' = ZeroGrad(ga)
              /\ cnt' = Count(cnt, "a")
              /\ pidx' = 2
              /\ pc' = "update"
              /\ UNCHANGED <<b, gb>>
         ELSE /\ b' = SgdUpdate(b, BackwardB(x, y, Forward(a, b, x)), lr)
              /\ gb' = ZeroGrad(gb)
              /\ cnt' = Count(cnt, "b")
              /\ pidx' = 0
              /\ pc' = "ckpt"
              /\ UNCHANGED <<a, ga>>
    /\ UNCHANGED <<dataVars, exampleVars, rising,
                   loaderVars, ep, yhat, loss, err, fig, pre>>

\* one pass of the body of `for p in lin.parameters()`:
\*     p.data -= lr * p.grad ; p.grad.zero_()
GdUpdate ==
    /\ cell = "gd" /\ pc = "update"
    /\ IF pidx = 1
         THEN /\ a' = SgdUpdate(a, ga[1], lr)
              /\ ga' = ZeroGrad(ga)
              /\ cnt' = Count(cnt, "a")
              /\ pidx' = 2
              /\ pc' = "update"
              /\ UNCHANGED <<b, gb>>
         ELSE /\ b' = SgdUpdate(b, gb[1], lr)
              /\ gb' = ZeroGrad(gb)
              /\ cnt' = Count(cnt, "b")
              /\ pidx' = 0
              /\ pc' = "ckpt"
              /\ UNCHANGED <<a, ga>>
    /\ UNCHANGED <<dataVars, exampleVars, rising,
                   loaderVars, ep, yhat, loss,
                   err, fig, pre>>

\* a checkpoint that stores the prediction it plots in yhat
GdCheckpointKeepsPlot ==
    /\ cell = "gd" /\ pc = "ckpt"
    /\ ep % CheckpointEvery = 0
    /\ IF Len(x) = Len(y)
         THEN /\ fig' = <<a, b>> /\ ep' = ep + 1 /\ pc' = "for" /\ err' = err
              /\ yhat' = Forward(a, b, x)
         ELSE /\ err' = "ValueError" /\ pc' = "raised"
              /\ UNCHANGED <<fig, ep, yhat>>
    /\ UNCHANGED <<dataVars, exampleVars, rising,
                   loaderVars, a, b, ga, gb, pidx,
                   loss, pre, cnt>>

\* if ep%10**3==0: ... plt_linear_fit(wine_x, wine_y, V(lin(thx)), ...)
\* (scatter raises ValueError when its two arguments differ in size)
GdCheckpoint ==
    /\ cell = "gd" /\ pc = "ckpt"
    /\ ep % CheckpointEvery = 0
    /\ IF Len(x) = Len(y)
         THEN fig' = <<a, b>> /\ ep' = ep + 1 /\ pc' = "for" /\ err' = err
         ELSE err' = "ValueError" /\ pc' = "raised" /\ UNCHANGED <<fig, ep>>
    /\ UNCHANGED <<dataVars, exampleVars, rising,
                   loaderVars, a, b, ga, gb, pidx, yhat,
                   loss, pre, cnt>>

\* the epochs in which the checkpoint condition is false
GdNoCheckpoint ==
    /\ cell = "gd" /\ pc = "ckpt"
    /\ ep % CheckpointEvery # 0
    /\ ep' = ep + 1
    /\ pc' = "for"
    /\ UNCHANGED <<dataVars, exampleVars, rising,
                   loaderVars, a, b, ga, gb, pidx, yhat, loss,
                   err, fig, pre, cnt>>

NextGd ==
    \/ GdFor \/ GdForward \/ GdLoss \/ GdBackward \/ GdUpdate
    \/ GdCheckpoint \/ GdNoCheckpoint

\* one epoch of the manual loop as a function of the parameters p = <<a, b>>:
\* forward, loss, backward, then both updates from the one backward pass
ManualEpoch(p, xs, ys, rate) ==
    LET yh == Forward(p[1], p[2], xs)
    IN  <<SgdUpdate(p[1], BackwardA(xs, ys, yh), rate),
          SgdUpdate(p[2], BackwardB(xs, ys, yh), rate)>>

\* k epochs of the manual loop
RECURSIVE ManualEpochs(_, _, _, _, _)
ManualEpochs(p, k, xs, ys, rate) ==
    IF k = 0 THEN p
    ELSE ManualEpoch(ManualEpochs(p, k - 1, xs, ys, rate), xs, ys, rate)

\* prev_loss_fn = ((thy-yhat)*(thy-yhat)).mean() of the loss-function cell,
\* which reads the yhat the manual loop left behind
prev_loss_fn == MseLoss(y, yhat)

\* ------------------------------------------------ mini-batch (SGD) loop
\* a DataLoader built with drop_last=True
TrainDropLastOn == TRUE

\* the DataLoader of the training cell is built without drop_last
TrainDropLast == FALSE

\* the mini-batch tensors x, y of the loop body
XB == Collate(x, batch)
YB == Collate(y, batch)

\* dataset = WineData(wine_x, wine_y): assert len(self.x) == len(self.y)
SgdDataset ==
    /\ cell = "sgd" /\ pc = "dataset"
    /\ IF WineDataAccepts(x, y)
         THEN pc' = "for" /\ err' = err
         ELSE pc' = "raised" /\ err' = "AssertionError"
    /\ UNCHANGED <<dataVars, exampleVars, rising,
                   loaderVars, ep, a, b, ga, gb, pidx, yhat, loss,
                   fig, pre, cnt>>

\* for e in range(num_epochs):
SgdFor ==
    /\ cell = "sgd" /\ pc = "for"
    /\ pc' = IF RangeHasNext(ep, num_epochs) THEN "iter" ELSE "done"
    /\ UNCHANGED <<dataVars, exampleVars, rising,
                   loaderVars, ep, a, b, ga, gb, pidx, yhat, loss,
                   err, fig, pre, cnt>>

\* `for x, y in dataloader` starts a new pass: a fresh shuffle
SgdIter ==
    /\ cell = "sgd" /\ pc = "iter"
    /\ perm' \in Shuffles(Len(y))
    /\ pos' = 0
    /\ seen' = {}
    /\ cnt' = Count(cnt, "iter")
    /\ pc' = "batch"
    /\ UNCHANGED <<dataVars, exampleVars, rising,
                   batch, ep, a, b, ga, gb, pidx, yhat, loss, err,
                   fig, pre>>

\* `for x, y in dataloader` fetches the next batch, or ends the pass
SgdNextBatch ==
    /\ cell = "sgd" /\ pc = "batch"
    /\ IF HasBatch(pos, Len(perm), batch_size, TrainDropLast)
         THEN /\ batch' = BatchAt(perm, pos, batch_size)
              /\ cnt' = Count(cnt, "batch")
              /\ pos' = pos + Len(batch')
              /\ pc' = "forward"
         ELSE /\ pc' = "ckpt"
              /\ UNCHANGED <<batch, pos, cnt>>
    /\ UNCHANGED <<dataVars, exampleVars, rising,
                   perm, seen, ep, a, b, ga, gb, pidx, yhat, loss,
                   err, fig, pre>>

\* x, y = x.unsqueeze(1), y.unsqueeze(1) ; yhat = model(x)
SgdForward ==
    /\ cell = "sgd" /\ pc = "forward"
    /\ yhat' = Forward(a, b, XB)
    /\ pre' = <<a, b>>
    /\ cnt' = Count(cnt, "forward")
    /\ pc' = "loss"
    /\ UNCHANGED <<dataVars, exampleVars, rising,
                   loaderVars, ep, a, b, ga, gb, pidx, loss, err,
                   fig>>

\* loss = loss_fn(y, yhat)
SgdLoss ==
    /\ cell = "sgd" /\ pc = "loss"
    /\ loss' = <<MseLoss(YB, yhat)>>
    /\ cnt' = Count(cnt, "loss")
    /\ pc' = "zero_grad"
    /\ UNCHANGED <<dataVars, exampleVars, rising,
                   loaderVars, ep, a, b, ga, gb, pidx, yhat, err,
                   fig, pre>>

\* a loop body without the zero_grad() call
SgdZeroGradSkipped ==
    /\ cell = "sgd" /\ pc = "zero_grad"
    /\ pc' = "backward"
    /\ UNCHANGED <<dataVars, exampleVars, rising,
                   loaderVars, ep, a, b, ga, gb, pidx, yhat, loss, err,
                   fig, pre, cnt>>

\* optmzr.zero_grad()
SgdZeroGrad ==
    /\ cell = "sgd" /\ pc = "zero_grad"
    /\ ga' = ZeroGrad(ga)
    /\ gb' = ZeroGrad(gb)
    /\ pc' = "backward"
    /\ UNCHANGED <<dataVars, exampleVars, rising,
                   loaderVars, ep, a, b, pidx, yhat, loss, err,
                   fig, pre, cnt>>

\* loss.backward()
SgdBackward ==
    /\ cell = "sgd" /\ pc = "backward"
    /\ ga' = Accumulate(ga, BackwardA(XB, YB, yhat))
    /\ gb' = Accumulate(gb, BackwardB(XB, YB, yhat))
    /\ cnt' = Count(cnt, "backward")
    /\ pc' = "step"
    /\ UNCHANGED <<dataVars, exampleVars, rising,
                   loaderVars, ep, a, b, pidx, yhat, loss, err,
                   fig, pre>>

\* optmzr.step(): every parameter moves by its own gradient
SgdStep ==
    /\ cell = "sgd" /\ pc = "step"
    /\ a' = SgdUpdate(a, ga[1], lr)
    /\ b' = SgdUpdate(b, gb[1], lr)
    /\ cnt' = Count(Count(cnt, "a"), "b")
    /\ seen' = seen \cup Range(batch)
    /\ pc' = "batch"
    /\ UNCHANGED <<dataVars, exampleVars, rising,
                   perm, pos, batch, ep, ga, gb, pidx, yhat, loss,
                   err, fig, pre>>

\* if e%100==0: ypred = model(...) ; fig = plt_linear_fit(...)
SgdCheckpoint ==
    /\ cell = "sgd" /\ pc = "ckpt"
    /\ ep % SgdCheckpointEvery = 0
    /\ fig' = <<a, b>>
    /\ ep' = ep + 1
    /\ pc' = "for"
    /\ UNCHANGED <<dataVars, exampleVars, rising,
                   loaderVars, a, b, ga, gb, pidx, yhat,
                   loss, err, pre, cnt>>

SgdNoCheckpoint ==
    /\ cell = "sgd" /\ pc = "ckpt"
    /\ ep % SgdCheckpointEvery # 0
    /\ ep' = ep + 1
    /\ pc' = "for"
    /\ UNCHANGED <<dataVars, exampleVars, rising,
                   loaderVars, a, b, ga, gb, pidx, yhat, loss, err,
                   fig, pre, cnt>>

NextSgd ==
    \/ SgdDataset \/ SgdFor \/ SgdIter \/ SgdNextBatch \/ SgdForward
    \/ SgdLoss \/ SgdZeroGrad \/ SgdBackward \/ SgdStep
    \/ SgdCheckpoint \/ SgdNoCheckpoint

\* ------------------------- MyLinearModel() and the optimizer usage example
\* no model exists yet; the optimizer will be built with lr=0.5
InitOptim == InitWith("optim", <<0>>, <<0>>, ExampleLr, 0, 1, <<0, 0>>)

\* a cell that runs before `lin = MyLinearModel()` or between it and the
\* optimizer example draws a number from the global generator (the shuffle
\* of a DataLoader pass does)
OptDraw ==
    /\ cell = "optim" /\ pc \in {"lin", "model"}
    /\ cnt["draw"] < MaxDraws
    /\ rng' = Drawn(rng)
    /\ cnt' = Count(cnt, "draw")
    /\ UNCHANGED <<cell, pc, x, y, lr, num_epochs, batch_size, p0, loaderVars,
                   out, rising, ep, a, b, ga, gb, pidx, yhat, loss, err, fig,
                   pre>>

\* lin = MyLinearModel()
OptLin ==
    /\ cell = "optim" /\ pc = "lin"
    /\ LET m == NewLinearModel(rng)
       IN  /\ a' = m.a /\ b' = m.b
           /\ p0' = <<m.a, m.b>>
           /\ rng' = m.rng
           /\ out' = Append(out, [a |-> m.a, b |-> m.b, gen |-> m.gen])
    /\ ga' = <<>> /\ gb' = <<>>
    /\ pc' = "model"
    /\ UNCHANGED <<cell, x, y, lr, num_epochs, batch_size, loaderVars, rising,
                   ep, pidx, yhat, loss, err, fig, pre, cnt>>

\* model = MyLinearModel() ; optim = torch.optim.SGD(model.parameters(), lr=0.5)
OptModel ==
    /\ cell = "optim" /\ pc = "model"
    /\ LET m == NewLinearModel(rng)
       IN  /\ a' = m.a /\ b' = m.b
           /\ p0' = <<m.a, m.b>>
           /\ rng' = m.rng
           /\ out' = Append(out, [a |-> m.a, b |-> m.b, gen |-> m.gen])
    /\ ga' = <<>> /\ gb' = <<>>
    /\ pc' = "grad1"
    /\ UNCHANGED <<cell, x, y, lr, num_epochs, batch_size, loaderVars, rising,
                   ep, pidx, yhat, loss, err, fig, pre, cnt>>

\* model.a.grad = torch.tensor([0.5])
OptSetGrad1 ==
    /\ cell = "optim" /\ pc = "grad1"
    /\ ga' = <<ExampleGrad1>>
    /\ pc' = "zero_grad"
    /\ UNCHANGED <<dataVars, exampleVars, rising,
                   loaderVars, ep, a, b, gb, pidx, yhat, loss, err, fig, pre,
                   cnt>>

\* optim.zero_grad()
OptZeroGrad ==
    /\ cell = "optim" /\ pc = "zero_grad"
    /\ ga' = ZeroGrad(ga)
    /\ gb' = ZeroGrad(gb)
    /\ pc' = "grad2"
    /\ UNCHANGED <<dataVars, exampleVars, rising,
                   loaderVars, ep, a, b, pidx, yhat, loss, err, fig, pre,
                   cnt>>

\* model.a.grad = torch.tensor([0.4])
OptSetGrad2 ==
    /\ cell = "optim" /\ pc = "grad2"
    /\ ga' = <<ExampleGrad2>>
    /\ pc' = "step"
    /\ UNCHANGED <<dataVars, exampleVars, rising,
                   loaderVars, ep, a, b, gb, pidx, yhat, loss, err, fig, pre,
                   cnt>>

\* optim.step()
OptStep ==
    /\ cell = "optim" /\ pc = "step"
    /\ a' = StepParam(a, ga, lr)
    /\ b' = StepParam(b, gb, lr)
    /\ pc' = "done"
    /\ UNCHANGED <<dataVars, exampleVars, rising,
                   loaderVars, ep, ga, gb, pidx, yhat, loss, err, fig, pre,
                   cnt>>

NextOptim ==
    \/ OptDraw \/ OptLin \/ OptModel
    \/ OptSetGrad1 \/ OptZeroGrad \/ OptSetGrad2 \/ OptStep

\* ------------------------------------------------- WineData usage example
\* the observation arrays handed to WineData, the empty ones included
InitData ==
    \E xs \in XSeqs \cup {<<>>}, ys \in YSeqs \cup {<<>>} :
        InitWith("data", xs, ys, 1, 0, 1, <<0, 0>>)

\* dataset = WineData(wine_x, wine_y)
DataConstruct ==
    /\ cell = "data" /\ pc = "dataset"
    /\ IF WineDataAccepts(x, y)
         THEN pc' = "len" /\ err' = err
         ELSE pc' = "raised" /\ err' = "AssertionError"
    /\ UNCHANGED <<dataVars, exampleVars, rising,
                   loaderVars, ep, a, b, ga, gb, pidx, yhat, loss, fig, pre,
                   cnt>>

\* print("data sz = ", len(dataset))
DataLen ==
    /\ cell = "data" /\ pc = "len"
    /\ out' = Append(out, DatasetLen(x, y))
    /\ pc' = "item"
    /\ UNCHANGED <<dataVars, rng, rising, loaderVars, ep, a, b, ga, gb, pidx,
                   yhat, loss, err, fig, pre, cnt>>

\* print("get the 3rd item", dataset[2]); indexing past the end of a numpy
\* array raises IndexError
DataItem ==
    /\ cell = "data" /\ pc = "item"
    /\ IF HasItem(x, y, 2)
         THEN /\ out' = Append(out, GetItem(x, y, 2))
              /\ pc' = "done"
              /\ err' = err
         ELSE /\ err' = "IndexError"
              /\ pc' = "raised"
              /\ out' = out
    /\ UNCHANGED <<dataVars, rng, rising, loaderVars, ep, a, b, ga, gb, pidx,
                   yhat, loss, fig, pre, cnt>>

NextData == DataConstruct \/ DataLen \/ DataItem

\* ----------------------------------------------- DataLoader usage example
InitLoader ==
    \E n \in ExampleLens :
        InitWith("loader", [i \in 1..n |-> i - 1],
                 [i \in 1..n |-> i % (MaxVal + 1)], 1, 0, ExampleBatchSize,
                 <<0, 0>>)

\* what a print of a fetched batch shows: the batch, with the number of the
\* pass (iterator) that produced it and its place in that pass
Shown(idxs, at) ==
    [pass |-> cnt["iter"] + 1, at |-> at \div batch_size + 1, idx |-> idxs]

\* dataset = WineData(wine_x, wine_y) ; dataloader = DataLoader(dataset,
\*     batch_size=4, drop_last=True, shuffle=True)
LdDataset ==
    /\ cell = "loader" /\ pc = "dataset"
    /\ IF WineDataAccepts(x, y)
         THEN pc' = "first" /\ err' = err
         ELSE pc' = "raised" /\ err' = "AssertionError"
    /\ UNCHANGED <<dataVars, exampleVars, rising,
                   loaderVars, ep, a, b, ga, gb, pidx, yhat, loss, fig, pre,
                   cnt>>

\* next(iter(dataloader)) at the iterator `it`: the batch at its position,
\* or StopIteration when the pass has none
LdNextOfIter(it, after) ==
    /\ perm' = it[1]
    /\ cnt' = Count(cnt, "iter")
    /\ IF HasBatch(it[2], Len(it[1]), batch_size, ExampleDropLast)
         THEN /\ batch' = BatchAt(it[1], it[2], batch_size)
              /\ pos' = it[2] + Len(batch')
              /\ out' = Append(out, Shown(batch', it[2]))
              /\ pc' = after
              /\ err' = err
         ELSE /\ err' = "StopIteration"
              /\ pc' = "raised"
              /\ UNCHANGED <<batch, pos, out>>

\* print(next(iter(dataloader)))
LdFirst ==
    /\ cell = "loader" /\ pc = "first"
    /\ \E order \in Shuffles(Len(y)) :
          LdNextOfIter(IterOf(<<perm, pos>>, <<order, 0>>), "second")
    /\ UNCHANGED <<dataVars, rng, rising, seen, ep, a, b, ga, gb, pidx, yhat,
                   loss, fig, pre>>

\* # next minibatch
\* x, y = next(iter(dataloader))
LdSecond ==
    /\ cell = "loader" /\ pc = "second"
    /\ \E order \in Shuffles(Len(y)) :
          LdNextOfIter(IterOf(<<perm, pos>>, <<order, 0>>), "loop")
    /\ UNCHANGED <<dataVars, rng, rising, seen, ep, a, b, ga, gb, pidx, yhat,
                   loss, fig, pre>>

\* for (x, y), i in zip(dataloader, range(5)): zip makes one more iterator
LdLoopIter ==
    /\ cell = "loader" /\ pc = "loop"
    /\ \E order \in Shuffles(Len(y)) :
          LET it == IterOf(<<perm, pos>>, <<order, 0>>)
          IN  perm' = it[1] /\ pos' = it[2]
    /\ cnt' = Count(cnt, "iter")
    /\ ep' = 0
    /\ pc' = "zip"
    /\ UNCHANGED <<dataVars, exampleVars, rising,
                   batch, seen, a, b, ga, gb, pidx, yhat, loss, err, fig,
                   pre>>

\* one round of zip: the next batch of the pass, then the next i of
\* range(5); the loop ends when either has none, else the body prints
LdLoopNext ==
    /\ cell = "loader" /\ pc = "zip"
    /\ IF HasBatch(pos, Len(perm), batch_size, ExampleDropLast)
         THEN /\ batch' = BatchAt(perm, pos, batch_size)
              /\ pos' = pos + Len(batch')
              /\ IF RangeHasNext(ep, ExampleLoopLimit)
                   THEN /\ out' = Append(out,
                                [pass |-> cnt["iter"],
                                 at |-> pos \div batch_size + 1,
                                 idx |-> batch'])
                        /\ ep' = ep + 1
                        /\ pc' = "zip"
                   ELSE UNCHANGED <<out, ep>> /\ pc' = "done"
         ELSE /\ pc' = "done"
              /\ UNCHANGED <<batch, pos, out, ep>>
    /\ UNCHANGED <<dataVars, rng, rising, perm, seen, a, b, ga, gb, pidx,
                   yhat, loss, err, fig, pre, cnt>>

NextLoader == LdDataset \/ LdFirst \/ LdSecond \/ LdLoopIter \/ LdLoopNext

Init == InitTrain \/ InitOptim \/ InitData \/ InitLoader

Next == NextGd \/ NextSgd \/ NextOptim \/ NextData \/ NextLoader

Spec == Init /\ [][Next]_vars

\* the manual loop alone; the cell is straight-line code that the kernel
\* runs to its end
InitGd == Init /\ cell = "gd"
FairSpecGd == InitGd /\ [][NextGd]_vars /\ WF_vars(NextGd)

\* the manual loop on the observations of the exact line y = 2x + 1, from
\* (a, b) = (0, 0), with learning rate 0.1 for 2000 epochs
InitLine ==
    InitWith("gd", <<0, 1, 2, 3>>, <<1, 3, 5, 7>>, LrDen \div 10, 2 * 10^3, 1,
             <<0, 0>>)
SpecLine == InitLine /\ [][NextGd]_vars

\* the manual loop under learning rates that make it diverge, for a few and
\* for many epochs; the cell runs to its end
InitDiverge ==
    \E xs \in XSeqs, ys \in YSeqs, rate \in DivergingRates,
       n \in {MaxEpochs, MaxEpochs + 6}, p \in InitialParams :
        InitWith("gd", xs, ys, rate, n, 1, p)
FairSpecDiverge == InitDiverge /\ [][NextGd]_vars /\ WF_vars(NextGd)

\* the manual loop started at the closed-form solution of its observations:
\* x not constant, every y sequence of whole numbers up to MaxVal, and
\* learning rates of either sign up to 1.0
FitXSeqs == {xs \in XSeqs : Len(xs) >= 2}
FitYSeqs(n) == [1..n -> 0..MaxVal]
FitRates == {-LrDen, 1, LrDen}
InitFit ==
    \E xs \in FitXSeqs, rate \in FitRates, n \in 0..MaxEpochs :
        \E ys \in FitYSeqs(Len(xs)) :
            InitWith("gd", xs, ys, rate, n, 1, ClosedForm(xs, ys))
SpecFit == InitFit /\ [][NextGd]_vars

\* ===================================================================
\* Properties
\* ===================================================================
LoopSteps == {"forward", "loss", "backward", "a", "b"}

\* C1: one update step of the manual loop replaces a by a - lr * grad_a and
\* b by b - lr * grad_b, both gradients being those of the one backward pass
\* at the parameters the epoch started with; the update of b does not see
\* the updated a.
C1_SimultaneousUpdate ==
    (cell = "gd" /\ pc = "ckpt") =>
        LET yh == Forward(pre[1], pre[2], x)
        IN  /\ a = pre[1] - RDiv(lr * BackwardA(x, y, yh), LrDen)
            /\ b = pre[2] - RDiv(lr * BackwardB(x, y, yh), LrDen)

\* both parameters moved, and the gradient of b at the updated a differs
\* from the one used
C1_Witness ==
    /\ cell = "gd" /\ pc = "ckpt"
    /\ a # pre[1] /\ b # pre[2]
    /\ RDiv(lr * BackwardB(x, y, Forward(a, pre[2], x)), LrDen)
         # RDiv(lr * BackwardB(x, y, Forward(pre[1], pre[2], x)), LrDen)

\* C2: the manual loop with num_epochs = N >= 0 runs exactly N epochs and
\* then ends; in every epoch forward, loss, backward, update of a, update of
\* b happen in this order, each once.
C2_Order ==
    /\ cnt["b"] <= cnt["a"]
    /\ cnt["a"] <= cnt["backward"]
    /\ cnt["backward"] <= cnt["loss"]
    /\ cnt["loss"] <= cnt["forward"]
    /\ cnt["forward"] <= cnt["b"] + 1

C2_Done ==
    (pc = "done" /\ num_epochs >= 0) =>
        /\ ep = num_epochs
        /\ \A k \in LoopSteps : cnt[k] = num_epochs

C2_EpochsThenTerminate ==
    /\ [](cell = "gd" => C2_Order /\ C2_Done)
    /\ <>(pc \in {"done", "raised"})

C2_Witness ==
    /\ cell = "gd" /\ pc = "done" /\ num_epochs >= 2
    /\ cnt["a"] = num_epochs /\ cnt["b"] = num_epochs

\* C3: in both loops the gradient buffers are zero or unset at every call
\* of backward, so the gradient that an update consumes is the gradient of
\* that iteration's loss alone.
C3_NoAccumulation ==
    /\ pc = "backward" => ga \in {<<>>, <<0>>} /\ gb \in {<<>>, <<0>>}
    /\ (cell = "gd" /\ pc = "update" /\ pidx = 1) =>
           ga = <<BackwardA(x, y, yhat)>>
    /\ (cell = "gd" /\ pc = "update") => gb = <<BackwardB(x, y, yhat)>>
    /\ (cell = "sgd" /\ pc = "step") =>
           /\ ga = <<BackwardA(XB, YB, yhat)>>
           /\ gb = <<BackwardB(XB, YB, yhat)>>

\* a later iteration consumes a non-zero gradient after an earlier one left
\* a non-zero gradient behind
C3_Witness ==
    /\ pc \in {"update", "step"}
    /\ cnt["backward"] >= 2
    /\ ga # <<0>> /\ gb # <<0>>


\* the gradients of the loss of the data (xs, ys) at the parameters that the
\* last forward pass read
GradAAtPre(xs, ys) == BackwardA(xs, ys, Forward(pre[1], pre[2], xs))
GradBAtPre(xs, ys) == BackwardB(xs, ys, Forward(pre[1], pre[2], xs))

\* both parameters have just been updated
GdUpdated == cell = "gd" /\ pc = "ckpt"
SgdUpdated == cell = "sgd" /\ pc = "batch" /\ cnt["a"] >= 1

C5_Original ==
    num_epochs < 0 => pc # "done"

\* C5 (amended): num_epochs < 0 is not reported: the loop body never runs,
\* the parameters keep their initial values and the cell ends normally (the
\* only error is the dataset's length assertion of the mini-batch cell).
C5_NegativeIsZeroEpochs ==
    num_epochs < 0 =>
        /\ \A k \in Steps : cnt[k] = 0
        /\ a = p0[1] /\ b = p0[2]
        /\ pc \in {"for", "dataset", "done", "raised"}
        /\ pc = "raised" =>
               cell = "sgd" /\ Len(x) # Len(y) /\ err = "AssertionError"
        /\ pc # "raised" => err = "none"

C5_Witness ==
    num_epochs < 0 /\ pc = "done" /\ err = "none" /\ a = p0[1] /\ b = p0[2]

\* C6: computing the loss for target and prediction sequences of different
\* lengths fails, on every path by which observations reach the loss; no
\* loss value is ever produced from sequences of different lengths.
C6_MismatchFails ==
    Len(x) # Len(y) => cnt["loss"] = 0 /\ loss = <<>>

\* C7 (as claimed): after k executed epochs the manual loop holds a loss
\* history of exactly k values.
C7_Original ==
    (cell = "gd" /\ pc \in {"for", "done"}) => Len(loss) = ep

\* C7 (amended): the manual loop keeps no loss history: it computes one loss
\* per epoch into the single variable loss, so after k >= 1 epochs exactly
\* one value is held, the loss of epoch k (computed from the parameters
\* before that epoch's update); the losses of the earlier epochs are
\* overwritten.
C7_OnlyLastLossKept ==
    cell = "gd" =>
        /\ Len(loss) = (IF cnt["loss"] = 0 THEN 0 ELSE 1)
        /\ pc \in {"for", "done"} => cnt["loss"] = ep
        /\ (cnt["loss"] >= 1 /\ pc # "loss") =>
               loss = <<MseLoss(y, Forward(pre[1], pre[2], x))>>

\* two epochs ran and the loss of the first is no longer held
C7_Witness ==
    /\ cell = "gd" /\ pc = "done" /\ ep >= 2
    /\ loss # <<MseLoss(y, Forward(p0[1], p0[2], x))>>

\* the mini-batch loop is working on a fetched batch
InBatch ==
    cell = "sgd" /\ pc \in {"forward", "loss", "zero_grad", "backward", "step"}

\* C8 (as claimed): in every epoch of the mini-batch loop the batches are
\* pairwise disjoint subsets of the observation set, each of the configured
\* batch size.
C8_Original ==
    InBatch => Range(batch) \cap seen = {} /\ Len(batch) = batch_size

\* C8 (amended): in every epoch the batches are pairwise disjoint subsets of
\* the observation set, each of the configured batch size except that the
\* last batch of an epoch holds the observations that remain; exactly one
\* update is made per batch, and the forward pass of each batch reads the
\* parameters left by the update of the batch before it.
C8_BatchesDisjointSequential ==
    cell = "sgd" =>
        /\ InBatch =>
               /\ Range(batch) \cap seen = {}
               /\ Cardinality(Range(batch)) = Len(batch)
               /\ Range(batch) \subseteq 1..Len(y)
               /\ Len(batch) = Min2(batch_size, Len(y) - Cardinality(seen))
               /\ cnt["batch"] = cnt["a"] + 1
        /\ ~InBatch => cnt["batch"] = cnt["a"]
        /\ cnt["a"] = cnt["b"]
        /\ pc \in {"loss", "zero_grad", "backward", "step"} =>
               pre = <<a, b>> /\ yhat = Forward(a, b, XB)
        /\ SgdUpdated =>
               /\ a = pre[1] - RDiv(lr * GradAAtPre(XB, YB), LrDen)
               /\ b = pre[2] - RDiv(lr * GradBAtPre(XB, YB), LrDen)

\* the forward pass of a later, smaller batch of an epoch, after an update
\* that moved a parameter
C8_Witness ==
    /\ cell = "sgd" /\ pc = "loss"
    /\ seen # {}
    /\ Len(batch) < batch_size
    /\ a # p0[1]

\* C9 (as claimed): the final incomplete batch of each epoch is discarded:
\* floor(n/s) updates per epoch, none from fewer than s observations.
C9_Original ==
    cell = "sgd" =>
        /\ pc = "ckpt" => cnt["a"] = (ep + 1) * (Len(y) \div batch_size)
        /\ pc = "step" => Len(batch) = batch_size

\* C9 (amended): the final incomplete batch of each epoch is kept: the loop
\* makes ceil(n/s) updates per epoch, and when s does not divide n the last
\* update of each epoch is computed from the n mod s remaining observations.
C9_PartialBatchKept ==
    cell = "sgd" =>
        /\ pc = "ckpt" =>
               cnt["a"] = (ep + 1) * ((Len(y) + batch_size - 1) \div batch_size)
        /\ pc = "step" =>
               Len(batch) = (IF pos < Len(y) \/ Len(y) % batch_size = 0
                               THEN batch_size
                               ELSE Len(y) % batch_size)

\* an update computed from an incomplete batch that follows a full one
C9_Witness ==
    /\ cell = "sgd" /\ pc = "step"
    /\ Len(batch) < batch_size
    /\ Len(y) > batch_size

\* C10: full-batch training on x = [0,1,2,3], y = [1,3,5,7] from (0, 0) with
\* learning rate 0.1 for 2000 epochs ends with (a, b) within 1e-3 of (2, 1)
\* and a final loss within 1e-6 of 0 (both the last loss computed and the
\* loss of the final parameters).
C10_LineConverges ==
    pc = "done" =>
        /\ Abs(a - 2 * Unit) <= Unit \div 10^3
        /\ Abs(b - Unit) <= Unit \div 10^3
        /\ loss # <<>> /\ Abs(loss[1]) <= Unit \div 10^6
        /\ Abs(MseLoss(y, Forward(a, b, x))) <= Unit \div 10^6

C10_Witness ==
    /\ pc = "done" /\ err = "none"
    /\ x = <<0, 1, 2, 3>> /\ y = <<1, 3, 5, 7>> /\ p0 = <<0, 0>>
    /\ lr * 10 = LrDen
    /\ cnt["a"] = 2 * 10^3 /\ cnt["b"] = 2 * 10^3

\* C11: any two constructions of MyLinearModel yield the same initial (a, b),
\* whatever state the global generator was in when each began, that is
\* however many random numbers were drawn before and between them.
C11_SeedDeterminism ==
    cell = "optim" =>
        \A i, j \in 1..Len(out) : out[i].a = out[j].a /\ out[i].b = out[j].b

\* two models were built, numbers were drawn between the two constructions,
\* and the two constructors found the generator in different states
C11_Witness ==
    /\ cell = "optim" /\ Len(out) = 2
    /\ out[2].gen # out[1].gen
    /\ out[2].gen[2] > 2

Diverged == cell = "gd" /\ (rising \/ loss = <<NonFinite>>)

\* C13: divergence is not fatal: once the loss has grown in every epoch or
\* is non-finite, no error is raised, every update is still p - lr * grad of
\* the parameters before it (nothing is corrected), and the loop goes on to
\* end normally after exactly num_epochs epochs.
C13_DivergenceNotFatal ==
    /\ [](Diverged =>
            /\ err = "none"
            /\ pc = "done" =>
                   ep = num_epochs /\ \A k \in LoopSteps : cnt[k] = num_epochs
            /\ GdUpdated =>
                   /\ a = SgdUpdate(pre[1], GradAAtPre(x, y), lr)
                   /\ b = SgdUpdate(pre[2], GradBAtPre(x, y), lr))
    /\ (Diverged ~> (pc = "done" /\ err = "none" /\ ep = num_epochs))

\* a run that ended normally after all its epochs with a non-finite loss and
\* non-finite parameters
C13_Witness ==
    /\ cell = "gd" /\ pc = "done" /\ err = "none"
    /\ loss = <<NonFinite>> /\ a = NonFinite /\ b = NonFinite
    /\ ep = num_epochs /\ cnt["a"] = num_epochs

\* WineData(wine_x, wine_y) has been executed in a cell that calls it, and
\* whether it returned a dataset or raised
Constructed == cell \in {"data", "sgd", "loader"} /\ pc # "dataset"
DatasetBuilt == Constructed /\ err # "AssertionError"

\* C14 (as claimed): every accepted observation set has x and y of equal
\* length n > 0; unequal lengths and empty sequences are rejected;
\* len(dataset) is the common length.
C14_Original ==
    /\ DatasetBuilt => Len(x) = Len(y) /\ Len(y) > 0
    /\ (Constructed /\ (Len(x) # Len(y) \/ Len(x) = 0 \/ Len(y) = 0)) =>
           err = "AssertionError"
    /\ (cell = "data" /\ Len(out) >= 1) => out[1] = Len(x) /\ out[1] = Len(y)

\* C14 (amended): the constructor accepts exactly the observation sets whose
\* x and y have equal length n >= 0: unequal lengths are rejected with an
\* AssertionError, empty sequences are accepted (n = 0); len(dataset) is the
\* common length.
C14_EqualLengthOnly ==
    /\ DatasetBuilt => Len(x) = Len(y)
    /\ (Constructed /\ Len(x) # Len(y)) => err = "AssertionError"
    /\ (Constructed /\ Len(x) = Len(y)) => err # "AssertionError"
    /\ (cell = "data" /\ Len(out) >= 1) => out[1] = Len(x) /\ out[1] = Len(y)

\* the dataset of two empty arrays was built and reported length 0
C14_Witness ==
    /\ cell = "data" /\ x = <<>> /\ y = <<>>
    /\ err # "AssertionError"
    /\ out = <<0>>

\* C15: an update step whose two gradients are zero leaves (a, b) as they
\* were, for every learning rate; and when the gradients are zero at the
\* initial parameters, so that every step is such a step, the parameters
\* stay at their initial values through any number of steps.
C15_ZeroGradientStep ==
    /\ (GdUpdated /\ GradAAtPre(x, y) = 0 /\ GradBAtPre(x, y) = 0) =>
           a = pre[1] /\ b = pre[2]
    /\ (SgdUpdated /\ GradAAtPre(XB, YB) = 0 /\ GradBAtPre(XB, YB) = 0) =>
           a = pre[1] /\ b = pre[2]
    /\ (cell = "gd" /\ Broadcastable(Len(y), Len(x))
           /\ BackwardA(x, y, Forward(p0[1], p0[2], x)) = 0
           /\ BackwardB(x, y, Forward(p0[1], p0[2], x)) = 0) =>
           a = p0[1] /\ b = p0[2]

\* two or more consecutive zero-gradient steps under a non-zero learning
\* rate, after which the parameters are where they started
C15_Witness ==
    /\ cell = "gd" /\ pc = "done" /\ err = "none"
    /\ lr # 0
    /\ cnt["a"] >= 2 /\ cnt["b"] >= 2
    /\ GradAAtPre(x, y) = 0 /\ GradBAtPre(x, y) = 0
    /\ a = p0[1] /\ b = p0[2]

\* C16: in the optimizer usage example (a.grad = 0.5, zero_grad(),
\* a.grad = 0.4, step() with lr = 0.5) zero_grad() leaves a where it was and
\* turns its gradient into 0, step() moves a by exactly -0.2 and leaves its
\* gradient at 0.4, and b, which never has a gradient, keeps its initial
\* value throughout.
C16_OptimizerExample ==
    cell = "optim" =>
        /\ pc = "zero_grad" => a = p0[1] /\ ga = <<Unit \div 2>>
        /\ pc = "grad2" => a = p0[1] /\ ga = <<0>>
        /\ pc = "step" => a = p0[1] /\ ga = <<(2 * Unit) \div 5>>
        /\ pc = "done" =>
               a = p0[1] - Unit \div 5 /\ ga = <<(2 * Unit) \div 5>>
        /\ pc \in {"grad1", "zero_grad", "grad2", "step", "done"} =>
               b = p0[2] /\ gb = <<>>

\* the example has run to its end with lr = 0.5
C16_Witness ==
    /\ cell = "optim" /\ pc = "done"
    /\ lr * 2 = LrDen
    /\ ga = <<(2 * Unit) \div 5>>
    /\ a = p0[1] - Unit \div 5
    /\ a # p0[1] - Unit \div 4

\* the DataLoader example has printed the batches of its first two
\* next(iter(dataloader)) calls
TwoShown == cell = "loader" /\ Len(out) >= 2

\* C17: the second next(iter(dataloader)) returns the batch that follows the
\* first call's batch within the same pass over the data: the same pass, the
\* next place in it, and hence no observation of the first batch again.
C17_SecondIsNextBatch ==
    TwoShown =>
        /\ out[2].pass = out[1].pass
        /\ out[2].at = out[1].at + 1
        /\ Range(out[2].idx) \cap Range(out[1].idx) = {}

\* the pass of the first call had a second batch, yet the second call
\* returned a batch holding an observation of the first call's batch
C17_Witness ==
    /\ TwoShown
    /\ Len(y) >= 2 * batch_size
    /\ Range(out[2].idx) \cap Range(out[1].idx) # {}
    /\ out[2].idx # out[1].idx

\* the mini-batch loop with a batch size that makes every batch the whole
\* observation set
FullBatch == cell = "sgd" /\ batch_size >= Len(y)

\* C18: fed the whole observation set in every iteration, the optimizer loop
\* (zero_grad, backward, step) makes one iteration per epoch and after every
\* iteration holds the (a, b) that the manual loop (backward, p -= lr*grad,
\* zero the gradient afterwards) holds after as many epochs from the same
\* initial parameters with the same learning rate.
C18_LoopsAgree ==
    /\ (cell = "gd" /\ pc \in {"for", "forward", "ckpt", "done"}) =>
           <<a, b>> = ManualEpochs(p0, cnt["b"], x, y, lr)
    /\ (FullBatch /\ pc \in {"batch", "forward", "ckpt", "for", "done"}) =>
           <<a, b>> = ManualEpochs(p0, cnt["b"], x, y, lr)
    /\ (FullBatch /\ pc \in {"for", "done"}) => cnt["b"] = ep
    /\ (cell = "gd" /\ pc \in {"for", "done"}) =>
           ga \in {<<>>, <<0>>} /\ gb \in {<<>>, <<0>>}

\* the optimizer loop after its second whole-set iteration: the batch came
\* in another order than the manual loop reads the observations, the
\* parameters have moved, and the gradients of the iteration are still in
\* the buffers, which the manual loop has zeroed at this point
C18_Witness ==
    /\ FullBatch /\ pc = "batch"
    /\ cnt["b"] = 2
    /\ lr # 0 /\ Len(y) >= 2
    /\ batch[1] # 1
    /\ a # p0[1] /\ b # p0[2]
    /\ ga # <<0>> /\ gb # <<0>>
    /\ p0 \in InitialParams

\* the parameters of the manual loop before its k-th update, k >= 1
BeforeUpdate(k) == ManualEpochs(p0, k - 1, x, y, lr)

\* the manual loop has run its k-th epoch up to and including the update
EpochDone(k) ==
    /\ cell = "gd" /\ err = "none" /\ k >= 1
    /\ \/ pc = "ckpt" /\ ep = k - 1
       \/ pc \in {"for", "done"} /\ ep = k

\* C19: the prediction and the loss of epoch k of the manual loop are those
\* of the parameters before the k-th update; after a loop of one or more
\* epochs yhat and loss, and with them the loss-function cell's
\* prev_loss_fn, belong to the parameters before the final update, differ
\* from the final parameters' prediction whenever that update moved them,
\* and the loop has computed exactly one loss per update, each before it.
C19_LossOfParamsBeforeUpdate ==
    \A k \in 1..(MaxEpochs + 1) :
        EpochDone(k) =>
            /\ yhat = Forward(BeforeUpdate(k)[1], BeforeUpdate(k)[2], x)
            /\ loss = <<MseLoss(y, yhat)>>
            /\ loss = <<prev_loss_fn>>
            /\ <<a, b>> = ManualEpoch(BeforeUpdate(k), x, y, lr)
            /\ cnt["forward"] = k /\ cnt["loss"] = k /\ cnt["b"] = k
            /\ (<<a, b>> # BeforeUpdate(k)) => yhat # Forward(a, b, x)

\* the manual loop has finished two or more epochs, the last update moved
\* both parameters, and the loss it leaves behind is not the loss of the
\* final parameters
C19_Witness ==
    /\ cell = "gd" /\ pc = "done" /\ err = "none"
    /\ num_epochs >= 2 /\ ep = num_epochs
    /\ Len(x) = Len(y) /\ Len(x) >= 2
    /\ a # BeforeUpdate(ep)[1] /\ b # BeforeUpdate(ep)[2]
    /\ yhat # Forward(a, b, x)
    /\ loss # <<MseLoss(y, Forward(a, b, x))>>

\* the gradients of the mean squared error at the initial parameters
GradAt0 ==
    <<BackwardA(x, y, Forward(p0[1], p0[2], x)),
      BackwardB(x, y, Forward(p0[1], p0[2], x))>>

\* C20 as stated: started at the closed-form solution, both gradients are
\* zero and no epoch changes (a, b), whatever the learning rate.
C20_Original ==
    /\ ga \in {<<>>, <<0>>} /\ gb \in {<<>>, <<0>>}
    /\ <<a, b>> = p0

\* the update of one epoch is below the resolution of the parameters when
\* the gradient is one rounding unit
RoundsAway(rate) == RDiv(Abs(rate), LrDen) = 0

\* C20, amended: at the closed-form (a, b) both gradients are zero up to one
\* rounding unit, and the first update moves a parameter by no more than
\* the learning rate times that unit.  When the gradients are exactly zero,
\* or the learning rate is so small that the update rounds away, every
\* epoch leaves (a, b) unchanged and every gradient stays within the unit.
C20_FixedPointUpToRounding ==
    /\ Abs(GradAt0[1]) <= 1 /\ Abs(GradAt0[2]) <= 1
    /\ cnt["a"] <= 1 => Abs(a - p0[1]) <= RDiv(Abs(lr), LrDen)
    /\ cnt["b"] <= 1 => Abs(b - p0[2]) <= RDiv(Abs(lr), LrDen)
    /\ (GradAt0 = <<0, 0>> \/ RoundsAway(lr)) =>
           /\ <<a, b>> = p0
           /\ ga \in {<<>>, <<0>>, <<1>>, <<-1>>}
           /\ gb \in {<<>>, <<0>>, <<1>>, <<-1>>}
    /\ GradAt0 = <<0, 0>> => ga \in {<<>>, <<0>>} /\ gb \in {<<>>, <<0>>}

\* the loop has ended after two or more epochs from a closed-form solution
\* whose gradients are not both exactly zero, under learning rate 1.0: the
\* parameters have left the closed form by more than the first update
C20_Witness ==
    /\ cell = "gd" /\ pc = "done" /\ err = "none"
    /\ p0 = ClosedForm(x, y)
    /\ ep >= 2
    /\ GradAt0 # <<0, 0>>
    /\ ~RoundsAway(lr)
    /\ Abs(a - p0[1]) > RDiv(Abs(lr), LrDen)
           \/ Abs(b - p0[2]) > RDiv(Abs(lr), LrDen)

====
